---- MODULE Spec2Model ----
(***************************************************************************)
(* Model of the merkderwn converter (src/main.go): a single-pass scanner   *)
(* that rewrites LaTeX constructs of a Markdown document as HTML comments. *)
(* Code points are one-character strings; the cursor is 0-based as in the  *)
(* Go source, sequences are 1-based, so in[cursor] of the source is        *)
(* in[cursor+1] here.  An out-of-range index or slice bound is a run-time  *)
(* panic of the Go program and is modelled by pc = "panic".                *)
(***************************************************************************)
EXTENDS Integers, Sequences, FiniteSets, TLC

VARIABLES in, cursor, inInlineMath, out, pc,
          emitCommentBlock, nesting, cmdNesting,
          iterCursor, iterOut, iterMath, prevIterCursor

vars == <<in, cursor, inInlineMath, out, pc,
          emitCommentBlock, nesting, cmdNesting,
          iterCursor, iterOut, iterMath, prevIterCursor>>

(***************************************************************************)
(* Bounds and the inputs of the model.                                     *)
(***************************************************************************)
MaxFrags == 4

BS == "\\"

CommentOpen == <<"<", "!", "-", "-">>
CommentClose == <<"-", "-", ">">>
CDATAOpen == <<"<", "!", "[", "C", "D", "A", "T", "A", "[">>
CDATAClose == <<"]", "]", ">">>
BeginWord == <<"b", "e", "g", "i", "n">>
EndWord == <<"e", "n", "d">>
MarkOpen == <<"<", "!", "-", "-">>
MarkClose == <<"-", "-", ">">>
EscapedDollar == <<BS, "$">>

BeginA == <<BS>> \o BeginWord \o <<"{", "a", "}">>
EndA == <<BS>> \o EndWord \o <<"{", "a", "}">>
EndB == <<BS>> \o EndWord \o <<"{", "b", "}">>

\* an opened CDATA section with some content
CDATAOpenText == CDATAOpen \o <<" ", "$", BS, "x">>

\* fragments around HTML comments and CDATA sections
CommentFrags ==
  { CommentOpen, CommentClose, CDATAOpenText, CDATAClose,
    <<"-">>, <<"]">>, <<" ", "$", BS, "x", " ">>, <<"<">> }

\* fragments around backslash commands and \begin ... \end blocks
LatexFrags ==
  { BeginA, EndA, EndB, <<BS, "x">>, <<"{", "a", "}">>, <<"[", "a", "]">>,
    <<" ">>, <<BS>> }

\* fragments around the bracket groups of a command
BracketFrags ==
  { <<BS, "x">>, <<"{">>, <<"}">>, <<"[">>, <<"]">>, <<" ">>, <<"x", "x">> }

\* fragments around inline math
MathFrags ==
  { <<"$">>, <<" ">>, <<"\t">>, <<BS>>, <<"5">>, <<" ", "$">>,
    <<BS, "x", "{", "a", "}">> }

RECURSIVE Concat(_)
Concat(ss) == IF Len(ss) = 0 THEN <<>> ELSE Head(ss) \o Concat(Tail(ss))

FragSeqs(F) == UNION { [1..n -> F] : n \in 0..MaxFrags }

Inputs ==
  { Concat(s) : s \in FragSeqs(CommentFrags) } \cup
  { Concat(s) : s \in FragSeqs(LatexFrags) } \cup
  { Concat(s) : s \in FragSeqs(BracketFrags) } \cup
  { Concat(s) : s \in FragSeqs(MathFrags) }

(***************************************************************************)
(* Methods that operate on the input.                                      *)
(***************************************************************************)
inputLength == Len(in)

atEof == cursor >= inputLength

at(c) == in[c + 1]

\* an index expression in[c] is in range
IndexOk(c) == c >= 0 /\ c < Len(in)

\* a slice expression in[c+1 : c+1+n] is in range (cap(in) = len(in))
lookaheadOk(n, c) == c + 1 >= 0 /\ c + 1 + n <= Len(in)

lookaheadAt(n, c) == SubSeq(in, c + 2, c + 1 + n)

eq(a, b) == Len(a) = Len(b) /\ \A i \in 1..Len(a) : a[i] = b[i]

\* unicode.IsSpace on the code points of the model
IsSpace(r) == r \in {" ", "\t", "\n", "\r"}


(***************************************************************************)
(* Methods that operate on the output.                                     *)
(***************************************************************************)
emit(o, s) == o \o s

emitRune(o, r) == Append(o, r)

\* the cursor after consuming n code points
advance(c, n) == c + n

(***************************************************************************)
(* Initial state: ByteArrayToConverter on one of the inputs.               *)
(***************************************************************************)
Init ==
  /\ in \in Inputs
  /\ cursor = 0
  /\ inInlineMath = FALSE
  /\ out = <<>>
  /\ pc = "Convert"
  /\ emitCommentBlock = FALSE
  /\ nesting = 0
  /\ cmdNesting = 0
  /\ iterCursor = -1
  /\ iterOut = <<>>
  /\ iterMath = FALSE
  /\ prevIterCursor = -1

locals == <<emitCommentBlock, nesting, cmdNesting>>
iter == <<iterCursor, iterOut, iterMath, prevIterCursor>>

\* a Go run-time panic: the conversion aborts where it is
Panic ==
  /\ pc' = "panic"
  /\ UNCHANGED <<in, cursor, inInlineMath, out, locals, iter>>

\* control moves on, nothing else changes
Goto(l) ==
  /\ pc' = l
  /\ UNCHANGED <<in, cursor, inInlineMath, out, locals, iter>>

(***************************************************************************)
(* Convert: the head of the dispatch loop.  iterCursor, iterOut and        *)
(* iterMath record the cursor, the output and the flag at the start of the *)
(* iteration, prevIterCursor the cursor at the start of the one before.    *)
(***************************************************************************)
Convert ==
  /\ pc = "Convert"
  /\ IF atEof
       THEN /\ pc' = "done"
            /\ UNCHANGED iter
       ELSE /\ pc' = "handleComments"
            /\ iterCursor' = cursor
            /\ iterOut' = out
            /\ iterMath' = inInlineMath
            /\ prevIterCursor' = iterCursor
  /\ UNCHANGED <<in, cursor, inInlineMath, out, locals>>

(***************************************************************************)
(* handleComments                                                          *)
(***************************************************************************)
\* variant: entering a comment leaves inline-math mode
handleComments_LeavesMath ==
  /\ pc = "handleComments"
  /\ IF at(cursor) # "<"
       THEN Goto("handleCDATA")
       ELSE IF ~lookaheadOk(3, cursor)
         THEN Panic
         ELSE IF ~eq(lookaheadAt(3, cursor), <<"!", "-", "-">>)
           THEN Goto("handleCDATA")
           ELSE /\ pc' = "handleCommentsLoop"
                /\ inInlineMath' = FALSE
                /\ UNCHANGED <<in, cursor, out, locals, iter>>

handleComments ==
  /\ pc = "handleComments"
  /\ IF at(cursor) # "<"
       THEN Goto("handleCDATA")
       ELSE IF ~lookaheadOk(3, cursor)
         THEN Panic
         ELSE IF ~eq(lookaheadAt(3, cursor), <<"!", "-", "-">>)
           THEN Goto("handleCDATA")
           ELSE Goto("handleCommentsLoop")

\* variant: the terminator is skipped but not written
handleCommentsLoop_NoTerminator ==
  /\ pc = "handleCommentsLoop"
  /\ IF ~atEof /\ at(cursor) = "-" /\ ~lookaheadOk(2, cursor)
       THEN Panic
       ELSE IF ~atEof /\ (at(cursor) # "-" \/ ~eq(lookaheadAt(2, cursor), <<"-", ">">>))
         THEN /\ out' = emitRune(out, at(cursor))
              /\ cursor' = advance(cursor, 1)
              /\ pc' = "handleCommentsLoop"
              /\ UNCHANGED <<in, inInlineMath, locals, iter>>
         ELSE /\ cursor' = advance(cursor, 3)
              /\ pc' = "Convert"
              /\ UNCHANGED <<in, inInlineMath, out, locals, iter>>

handleCommentsLoop ==
  /\ pc = "handleCommentsLoop"
  /\ IF ~atEof /\ at(cursor) = "-" /\ ~lookaheadOk(2, cursor)
       THEN Panic
       ELSE IF ~atEof /\ (at(cursor) # "-" \/ ~eq(lookaheadAt(2, cursor), <<"-", ">">>))
         THEN /\ out' = emitRune(out, at(cursor))
              /\ cursor' = advance(cursor, 1)
              /\ pc' = "handleCommentsLoop"
              /\ UNCHANGED <<in, inInlineMath, locals, iter>>
         ELSE /\ out' = emit(out, <<"-", "-", ">">>)
              /\ cursor' = advance(cursor, 3)
              /\ pc' = "Convert"
              /\ UNCHANGED <<in, inInlineMath, locals, iter>>

(***************************************************************************)
(* handleCDATA                                                             *)
(***************************************************************************)
handleCDATA ==
  /\ pc = "handleCDATA"
  /\ IF at(cursor) # "<"
       THEN Goto("handleInlineMath")
       ELSE IF ~lookaheadOk(8, cursor)
         THEN Panic
         ELSE IF ~eq(lookaheadAt(8, cursor), <<"!", "[", "C", "D", "A", "T", "A", "[">>)
           THEN Goto("handleInlineMath")
           ELSE Goto("handleCDATALoop")

\* variant: the section's code points are copied like a comment's
handleCDATALoop_Copying ==
  /\ pc = "handleCDATALoop"
  /\ IF ~atEof /\ at(cursor) = "]" /\ ~lookaheadOk(2, cursor)
       THEN Panic
       ELSE IF ~atEof /\ (at(cursor) # "]" \/ ~eq(lookaheadAt(2, cursor), <<"]", ">">>))
         THEN /\ out' = emitRune(out, at(cursor))
              /\ cursor' = advance(cursor, 1)
              /\ pc' = "handleCDATALoop"
              /\ UNCHANGED <<in, inInlineMath, locals, iter>>
         ELSE /\ cursor' = advance(cursor, 3)
              /\ pc' = "Convert"
              /\ UNCHANGED <<in, inInlineMath, out, locals, iter>>

handleCDATALoop ==
  /\ pc = "handleCDATALoop"
  /\ IF ~atEof /\ at(cursor) = "]" /\ ~lookaheadOk(2, cursor)
       THEN Panic
       ELSE IF ~atEof /\ (at(cursor) # "]" \/ ~eq(lookaheadAt(2, cursor), <<"]", ">">>))
         THEN /\ cursor' = advance(cursor, 1)
              /\ pc' = "handleCDATALoop"
              /\ UNCHANGED <<in, inInlineMath, out, locals, iter>>
         ELSE /\ cursor' = advance(cursor, 3)
              /\ pc' = "Convert"
              /\ UNCHANGED <<in, inInlineMath, out, locals, iter>>

(***************************************************************************)
(* handleInlineMath                                                        *)
(***************************************************************************)
\* variant: the escape pair is written but only one code point is consumed
handleInlineMath_EscapeByOne ==
  /\ pc = "handleInlineMath"
  /\ IF at(cursor) = BS /\ ~IndexOk(cursor + 1)
       THEN Panic
       ELSE IF at(cursor) = BS /\ at(cursor + 1) = "$"
         THEN /\ out' = emit(out, EscapedDollar)
              /\ cursor' = advance(cursor, 1)
              /\ pc' = "Convert"
              /\ UNCHANGED <<in, inInlineMath, locals, iter>>
         ELSE IF at(cursor) # "$"
           THEN Goto("handleLatex")
           ELSE IF cursor > 0 /\ at(cursor - 1) = " " /\ ~inInlineMath
             THEN /\ inInlineMath' = TRUE
                  /\ pc' = "handleLatex"
                  /\ UNCHANGED <<in, cursor, out, locals, iter>>
             ELSE IF ~lookaheadOk(1, cursor)
               THEN Panic
               ELSE IF lookaheadAt(1, cursor)[1] = " " /\ inInlineMath
                 THEN /\ inInlineMath' = FALSE
                      /\ pc' = "handleLatex"
                      /\ UNCHANGED <<in, cursor, out, locals, iter>>
                 ELSE Goto("handleLatex")

handleInlineMath ==
  /\ pc = "handleInlineMath"
  /\ IF at(cursor) = BS /\ ~IndexOk(cursor + 1)
       THEN Panic
       ELSE IF at(cursor) = BS /\ at(cursor + 1) = "$"
         THEN /\ out' = emit(out, EscapedDollar)
              /\ cursor' = advance(cursor, 2)
              /\ pc' = "Convert"
              /\ UNCHANGED <<in, inInlineMath, locals, iter>>
         ELSE IF at(cursor) # "$"
           THEN Goto("handleLatex")
           ELSE IF cursor > 0 /\ at(cursor - 1) = " " /\ ~inInlineMath
             THEN /\ inInlineMath' = TRUE
                  /\ pc' = "handleLatex"
                  /\ UNCHANGED <<in, cursor, out, locals, iter>>
             ELSE IF ~lookaheadOk(1, cursor)
               THEN Panic
               ELSE IF lookaheadAt(1, cursor)[1] = " " /\ inInlineMath
                 THEN /\ inInlineMath' = FALSE
                      /\ pc' = "handleLatex"
                      /\ UNCHANGED <<in, cursor, out, locals, iter>>
                 ELSE Goto("handleLatex")

(***************************************************************************)
(* handleLatex                                                             *)
(***************************************************************************)
\* the entry condition of the LaTeX recognizer, given the flag, the current
\* code point and the next one
latexEntry(math, cur, nxt) == ~math /\ cur = BS /\ nxt # BS

handleLatex ==
  /\ pc = "handleLatex"
  /\ IF inInlineMath \/ at(cursor) # BS
       THEN Goto("ConvertCopy")
       ELSE IF ~IndexOk(cursor + 1)
         THEN Panic
         ELSE IF ~latexEntry(inInlineMath, at(cursor), at(cursor + 1))
           THEN Goto("ConvertCopy")
           ELSE IF ~lookaheadOk(5, cursor)
             THEN Panic
             ELSE IF eq(lookaheadAt(5, cursor), BeginWord)
               THEN Goto("handleLatexBlock")
               ELSE /\ pc' = "handleLatexCommand"
                    /\ emitCommentBlock' = TRUE
                    /\ UNCHANGED <<in, cursor, inInlineMath, out, nesting,
                                   cmdNesting, iter>>

(***************************************************************************)
(* handleLatexCommand(emitCommentBlock)                                    *)
(***************************************************************************)
handleLatexCommand ==
  /\ pc = "handleLatexCommand"
  /\ out' = IF emitCommentBlock THEN emit(out, MarkOpen) ELSE out
  /\ pc' = "handleLatexCommandName"
  /\ UNCHANGED <<in, cursor, inInlineMath, locals, iter>>

handleLatexCommandName ==
  /\ pc = "handleLatexCommandName"
  /\ IF ~atEof /\ at(cursor) # "{" /\ at(cursor) # "[" /\ ~IsSpace(at(cursor))
       THEN /\ out' = emitRune(out, at(cursor))
            /\ cursor' = advance(cursor, 1)
            /\ pc' = "handleLatexCommandName"
            /\ UNCHANGED <<in, inInlineMath, locals, iter>>
       ELSE /\ cmdNesting' = 0
            /\ pc' = "handleLatexCommandArgs"
            /\ UNCHANGED <<in, cursor, inInlineMath, out, emitCommentBlock,
                           nesting, iter>>

\* variant: only braces are counted, square brackets are not
countBracket_BracesOnly(n, r) ==
  LET up == IF r = "{" THEN n + 1 ELSE n
  IN  IF r = "}" THEN up - 1 ELSE up

\* the counter after the code point r has been copied
countBracket(n, r) ==
  LET up == IF r = "{" \/ r = "[" THEN n + 1 ELSE n
  IN  IF r = "}" \/ r = "]" THEN up - 1 ELSE up

handleLatexCommandArgs ==
  /\ pc = "handleLatexCommandArgs"
  /\ IF ~atEof /\ ~(cmdNesting = 0 /\ at(cursor) # "{" /\ at(cursor) # "[")
       THEN /\ cmdNesting' = countBracket(cmdNesting, at(cursor))
            /\ out' = emitRune(out, at(cursor))
            /\ cursor' = advance(cursor, 1)
            /\ pc' = "handleLatexCommandArgs"
            /\ UNCHANGED <<in, inInlineMath, emitCommentBlock, nesting, iter>>
       ELSE /\ out' = IF emitCommentBlock THEN emit(out, MarkClose) ELSE out
            /\ pc' = IF emitCommentBlock THEN "Convert" ELSE "handleLatexBlockEnd"
            /\ cmdNesting' = 0
            /\ emitCommentBlock' = FALSE
            /\ UNCHANGED <<in, cursor, inInlineMath, nesting, iter>>

(***************************************************************************)
(* handleLatexBlock                                                        *)
(***************************************************************************)
handleLatexBlock ==
  /\ pc = "handleLatexBlock"
  /\ out' = emit(out, MarkOpen)
  /\ nesting' = 0
  /\ pc' = "handleLatexBlockLoop"
  /\ UNCHANGED <<in, cursor, inInlineMath, emitCommentBlock, cmdNesting, iter>>

\* variant: a \begin sets the counter instead of incrementing it, so that
\* inner pairs are not counted
countBlock_Flat(n, c) ==
  IF at(c) = BS /\ eq(lookaheadAt(5, c), BeginWord)
    THEN 1
    ELSE IF at(c) = BS /\ eq(lookaheadAt(3, c), EndWord)
      THEN n - 1
      ELSE n

\* the nesting counter after looking at the position c
countBlock(n, c) ==
  IF at(c) = BS /\ eq(lookaheadAt(5, c), BeginWord)
    THEN n + 1
    ELSE IF at(c) = BS /\ eq(lookaheadAt(3, c), EndWord)
      THEN n - 1
      ELSE n

handleLatexBlockLoop ==
  /\ pc = "handleLatexBlockLoop"
  /\ IF atEof
       THEN /\ pc' = "Convert"
            /\ nesting' = 0
            /\ UNCHANGED <<in, cursor, inInlineMath, out, emitCommentBlock,
                           cmdNesting, iter>>
       ELSE IF at(cursor) = BS /\ ~lookaheadOk(5, cursor)
         THEN Panic
         ELSE IF countBlock(nesting, cursor) = 0
           THEN /\ nesting' = 0
                /\ emitCommentBlock' = FALSE
                /\ pc' = "handleLatexCommand"
                /\ UNCHANGED <<in, cursor, inInlineMath, out, cmdNesting, iter>>
           ELSE /\ nesting' = countBlock(nesting, cursor)
                /\ out' = emitRune(out, at(cursor))
                /\ cursor' = advance(cursor, 1)
                /\ pc' = "handleLatexBlockLoop"
                /\ UNCHANGED <<in, inInlineMath, emitCommentBlock, cmdNesting, iter>>

\* handleLatexCommand(false) has returned into handleLatexBlock
handleLatexBlockEnd ==
  /\ pc = "handleLatexBlockEnd"
  /\ out' = emit(out, MarkClose)
  /\ pc' = "Convert"
  /\ UNCHANGED <<in, cursor, inInlineMath, locals, iter>>

(***************************************************************************)
(* The fallback of the dispatch loop: copy one code point.                 *)
(***************************************************************************)
\* variant: the code point is copied but the cursor is not advanced
ConvertCopy_NoAdvance ==
  /\ pc = "ConvertCopy"
  /\ out' = emitRune(out, at(cursor))
  /\ pc' = "Convert"
  /\ UNCHANGED <<in, cursor, inInlineMath, locals, iter>>

\* variant: the code point is written twice
ConvertCopy_Twice ==
  /\ pc = "ConvertCopy"
  /\ out' = emitRune(emitRune(out, at(cursor)), at(cursor))
  /\ cursor' = advance(cursor, 1)
  /\ pc' = "Convert"
  /\ UNCHANGED <<in, inInlineMath, locals, iter>>

ConvertCopy ==
  /\ pc = "ConvertCopy"
  /\ out' = emitRune(out, at(cursor))
  /\ cursor' = advance(cursor, 1)
  /\ pc' = "Convert"
  /\ UNCHANGED <<in, inInlineMath, locals, iter>>

Next ==
  \/ Convert
  \/ handleComments
  \/ handleCommentsLoop
  \/ handleCDATA
  \/ handleCDATALoop
  \/ handleInlineMath
  \/ handleLatex
  \/ handleLatexCommand
  \/ handleLatexCommandName
  \/ handleLatexCommandArgs
  \/ handleLatexBlock
  \/ handleLatexBlockLoop
  \/ handleLatexBlockEnd
  \/ ConvertCopy

Spec == Init /\ [][Next]_vars

TypeOK ==
  /\ cursor \in Nat
  /\ inInlineMath \in BOOLEAN
  /\ pc \in {"Convert", "handleComments", "handleCommentsLoop", "handleCDATA",
             "handleCDATALoop", "handleInlineMath", "handleLatex",
             "handleLatexCommand", "handleLatexCommandName",
             "handleLatexCommandArgs", "handleLatexBlock",
             "handleLatexBlockLoop", "handleLatexBlockEnd", "ConvertCopy",
             "done", "panic"}


(***************************************************************************)
(* Vocabulary of the properties.  Positions are 0-based like the cursor.   *)
(***************************************************************************)
\* the input holds the word w at position c
StartsWith(c, w) ==
  c >= 0 /\ c + Len(w) <= Len(in) /\ SubSeq(in, c + 1, c + Len(w)) = w

\* the input from position a up to, not including, position b
Span(a, b) == SubSeq(in, a + 1, b)

\* the word w occurs at or after position c
Occurs(c, w) == \E t \in c..Len(in) : StartsWith(t, w)

\* the position of the first occurrence of w at or after position c
First(c, w) ==
  CHOOSE t \in c..Len(in) :
    StartsWith(t, w) /\ \A u \in c..(t - 1) : ~StartsWith(u, w)

\* a dispatch-loop iteration has started and is the current one
InIteration == iterCursor >= 0

\* the current iteration is over: control is back at the loop head or the
\* conversion has returned
Returned == pc \in {"Convert", "done"}

AtLatex ==
  pc \in {"handleLatexCommand", "handleLatexCommandName",
          "handleLatexCommandArgs", "handleLatexBlock",
          "handleLatexBlockLoop", "handleLatexBlockEnd"}

(***************************************************************************)
(* C1: for every input, Convert never aborts: no recognizer reads the      *)
(* input at an index outside 0..N-1.                                       *)
(***************************************************************************)
C1_NeverAborts == pc # "panic"

(***************************************************************************)
(* C2: outside inline math, when the dispatch loop reaches two consecutive *)
(* backslashes followed by begin{a}, the second backslash (reached one     *)
(* iteration later) does not enter the LaTeX rewriters either, and the     *)
(* input \\begin{a} converts to itself.                                    *)
(***************************************************************************)
DoubleBackslashBegin == <<BS>> \o BeginA

C2_DoubleBackslashPassthrough ==
  /\ ( /\ InIteration
       /\ prevIterCursor >= 0
       /\ iterCursor = prevIterCursor + 1
       /\ StartsWith(prevIterCursor, DoubleBackslashBegin)
       /\ ~iterMath )
     => ~AtLatex
  /\ (pc = "done" /\ in = DoubleBackslashBegin) => out = in

(***************************************************************************)
(* C3: the cursor at the start of each dispatch-loop iteration is strictly *)
(* greater than at the start of the previous one, and no step of any       *)
(* recognizer or of the fallback copy decreases the cursor.                *)
(***************************************************************************)
C3_CursorMonotonic ==
  [][ /\ cursor' >= cursor
      /\ (pc = "Convert" /\ pc' = "handleComments") => cursor > iterCursor
    ]_vars

\* three iterations have started, the last two after a recognizer that
\* consumed more than one code point
C3_Witness ==
  /\ pc = "handleComments"
  /\ prevIterCursor > 1
  /\ iterCursor > prevIterCursor + 1

(***************************************************************************)
(* C4: at <!-- with a --> later in the input, the comment recognizer       *)
(* copies the span through the first following --> exactly as it is in the *)
(* input, emits nothing else, leaves the flag alone and leaves the cursor  *)
(* right after the terminator; an input that is exactly one                *)
(* well-terminated comment converts to itself.                             *)
(***************************************************************************)
AtTerminatedComment ==
  /\ InIteration
  /\ StartsWith(iterCursor, CommentOpen)
  /\ Occurs(iterCursor, CommentClose)

C4_CommentVerbatim ==
  AtTerminatedComment =>
    LET t == First(iterCursor, CommentClose) IN
      /\ pc \in {"handleComments", "handleCommentsLoop", "Convert", "done"}
      /\ inInlineMath = iterMath
      /\ pc = "handleComments" => (cursor = iterCursor /\ out = iterOut)
      /\ pc = "handleCommentsLoop" =>
           (cursor <= t /\ out = iterOut \o Span(iterCursor, cursor))
      /\ Returned =>
           (cursor = t + 3 /\ out = iterOut \o Span(iterCursor, t + 3))
      /\ (pc = "done" /\ iterCursor = 0 /\ t + 3 = Len(in)) => out = in

\* a whole comment holding a "$" and a backslash command has been copied
C4_Witness ==
  /\ AtTerminatedComment
  /\ pc = "done"
  /\ iterCursor = 0
  /\ cursor = Len(in)
  /\ \E i \in 4..(Len(in) - 4) : at(i) = BS
  /\ \E i \in 4..(Len(in) - 4) : at(i) = "$"
  /\ out = in

(***************************************************************************)
(* C5: at <![CDATA[ with a ]]> later in the input, the CDATA recognizer    *)
(* emits nothing for the span through the first following ]]>, leaves the  *)
(* flag alone and leaves the cursor right after the terminator, so the     *)
(* text before and after the section is contiguous in the output.          *)
(***************************************************************************)
AtTerminatedCDATA ==
  /\ InIteration
  /\ StartsWith(iterCursor, CDATAOpen)
  /\ Occurs(iterCursor, CDATAClose)

C5_CDATADropped ==
  AtTerminatedCDATA =>
    LET t == First(iterCursor, CDATAClose) IN
      /\ pc \in {"handleComments", "handleCDATA", "handleCDATALoop",
                 "Convert", "done"}
      /\ inInlineMath = iterMath
      /\ out = iterOut
      /\ ~Returned => cursor <= t
      /\ Returned => cursor = t + 3

\* a section holding a "$" and a backslash command has been dropped between
\* two plain code points
C5_Witness ==
  /\ AtTerminatedCDATA
  /\ pc = "Convert"
  /\ iterCursor > 0
  /\ cursor < Len(in)
  /\ cursor = First(iterCursor, CDATAClose) + 3
  /\ \E i \in iterCursor..cursor : at(i) = BS
  /\ \E i \in iterCursor..cursor : at(i) = "$"
  /\ out = Span(0, iterCursor)


(***************************************************************************)
(* The shape of a command and of a block, as the specification words them. *)
(***************************************************************************)
Opens == {"{", "["}

\* the closing bracket r closes a group opened by o
Closes(o, r) == (o = "{" /\ r = "}") \/ (o = "[" /\ r = "]")

\* the end of a command name at or after position p: the first "{", "[",
\* whitespace or end-of-input
RECURSIVE NameEnd(_)
NameEnd(p) ==
  IF p >= Len(in) \/ at(p) \in Opens \/ IsSpace(at(p))
    THEN p
    ELSE NameEnd(p + 1)

\* the position after the balanced group that is being read at position p
\* with the brackets of stack open; -1 if the group is not balanced
RECURSIVE GroupEnd(_, _)
GroupEnd(p, stack) ==
  IF p >= Len(in) THEN -1
  ELSE IF at(p) \in Opens THEN GroupEnd(p + 1, <<at(p)>> \o stack)
  ELSE IF at(p) \in {"}", "]"}
    THEN IF stack = <<>> \/ ~Closes(Head(stack), at(p)) THEN -1
         ELSE IF Len(stack) = 1 THEN p + 1
         ELSE GroupEnd(p + 1, Tail(stack))
  ELSE IF stack = <<>> THEN -1
  ELSE GroupEnd(p + 1, stack)

\* the position after the balanced groups that follow each other from
\* position p on; -1 if one of them is not balanced
RECURSIVE GroupsEnd(_)
GroupsEnd(p) ==
  IF p < Len(in) /\ at(p) \in Opens
    THEN LET e == GroupEnd(p, <<>>) IN IF e = -1 THEN -1 ELSE GroupsEnd(e)
    ELSE p

BeginAt(p) == StartsWith(p, <<BS>> \o BeginWord)
EndAt(p) == StartsWith(p, <<BS>> \o EndWord)

\* the position of the \end that closes the \begin ... \end span read from
\* position p on at depth d; -1 if the span is not closed or a \begin or
\* \end in it has no bracket group
RECURSIVE OuterEnd(_, _)
OuterEnd(p, d) ==
  IF p >= Len(in) THEN -1
  ELSE IF BeginAt(p)
    THEN IF StartsWith(p + 6, <<"{">>) THEN OuterEnd(p + 1, d + 1) ELSE -1
  ELSE IF EndAt(p)
    THEN IF ~StartsWith(p + 4, <<"{">>) THEN -1
         ELSE IF d = 1 THEN p
         ELSE OuterEnd(p + 1, d - 1)
  ELSE OuterEnd(p + 1, d)

(***************************************************************************)
(* C6: outside inline math, a backslash command whose name does not begin  *)
(* with begin, followed by zero or more balanced groups and then by a code *)
(* point that is not "{" or "[", is emitted as <!-- + name and groups +    *)
(* -->, and the cursor is left on the code point after the last group.     *)
(***************************************************************************)
AtCommand ==
  /\ InIteration
  /\ ~iterMath
  /\ at(iterCursor) = BS
  /\ iterCursor + 1 < Len(in)
  /\ at(iterCursor + 1) \notin {BS, "$"}
  /\ ~StartsWith(iterCursor + 1, BeginWord)
  /\ NameEnd(iterCursor) > iterCursor + 1
  /\ GroupsEnd(NameEnd(iterCursor)) # -1
  /\ GroupsEnd(NameEnd(iterCursor)) < Len(in)

C6_CommandWrapped ==
  AtCommand =>
    LET g == GroupsEnd(NameEnd(iterCursor)) IN
      /\ pc # "panic"
      /\ Returned =>
           /\ cursor = g
           /\ out = iterOut \o MarkOpen \o Span(iterCursor, g) \o MarkClose

(***************************************************************************)
(* C7 (as claimed): outside inline math, a properly nested span of         *)
(* \begin{...} / \end{...} pairs is emitted as <!-- + the span from the    *)
(* first \begin through the bracket group of the outermost \end + -->.     *)
(***************************************************************************)
AtBlock ==
  /\ InIteration
  /\ ~iterMath
  /\ BeginAt(iterCursor)
  /\ OuterEnd(iterCursor, 0) # -1
  /\ GroupsEnd(OuterEnd(iterCursor, 0) + 4) # -1

AtMathBackslash ==
  /\ InIteration
  /\ iterMath
  /\ at(iterCursor) = BS
  /\ ~StartsWith(iterCursor, EscapedDollar)

C8_MathBackslashCopied ==
  AtMathBackslash =>
    /\ pc # "panic"
    /\ ~AtLatex
    /\ inInlineMath
    /\ ~Returned => (cursor = iterCursor /\ out = iterOut)
    /\ Returned => (cursor = iterCursor + 1 /\ out = Append(iterOut, BS))

(***************************************************************************)
(* C9: whenever the dispatch loop is at a backslash immediately followed   *)
(* by "$", in either state of the flag, exactly the two code points \$ are *)
(* appended to the output, the cursor advances by exactly 2, the flag is   *)
(* unchanged and no marker is emitted; \$5 converts to \$5.                *)
(***************************************************************************)
AtEscape == InIteration /\ StartsWith(iterCursor, EscapedDollar)

C9_EscapedDollar ==
  AtEscape =>
    /\ pc \in {"handleComments", "handleCDATA", "handleInlineMath",
               "Convert", "done"}
    /\ inInlineMath = iterMath
    /\ ~Returned => (cursor = iterCursor /\ out = iterOut)
    /\ Returned => (cursor = iterCursor + 2 /\ out = iterOut \o EscapedDollar)
    /\ (pc = "done" /\ in = EscapedDollar \o <<"5">>) =>
         (out = in /\ Len(out) = Len(in))

\* an escape pair has been copied inside inline math and the flag is still
\* set
C9_Witness ==
  /\ AtEscape
  /\ pc = "Convert"
  /\ iterMath
  /\ inInlineMath
  /\ cursor = iterCursor + 2

(***************************************************************************)
(* C10: in every reachable state 0 <= cursor <= N, and the dispatch loop   *)
(* terminates with cursor = N, also after an HTML comment or a CDATA       *)
(* section whose terminator is missing.                                    *)
(***************************************************************************)
C10_CursorInRange ==
  /\ cursor >= 0
  /\ cursor <= Len(in)
  /\ pc = "done" => cursor = Len(in)


(***************************************************************************)
(* C11: at every dispatch-loop boundary the output is the consumed input   *)
(* prefix with the CDATA sections removed and only the marker strings      *)
(* inserted.  Stated per iteration: when an iteration is over, it has      *)
(* appended nothing if it consumed a CDATA section, and otherwise exactly  *)
(* the input span it consumed, in order, with at most one <!-- before it   *)
(* and at most one --> after it; the next iteration starts where this one  *)
(* stopped, so the statement for the whole prefix follows by induction.    *)
(***************************************************************************)
Min(a, b) == IF a <= b THEN a ELSE b

C11_OutputIsConsumedPrefix ==
  (InIteration /\ Returned) =>
    LET body == Span(iterCursor, Min(cursor, Len(in))) IN
      /\ cursor > iterCursor
      /\ IF StartsWith(iterCursor, CDATAOpen)
           THEN out = iterOut
           ELSE \E pre \in {<<>>, MarkOpen} : \E post \in {<<>>, MarkClose} :
                  out = iterOut \o pre \o body \o post

\* after a CDATA section was dropped, a comment without terminator has
\* been copied through end-of-input and closed by an inserted -->
C11_Witness ==
  /\ pc = "Convert"
  /\ InIteration
  /\ iterCursor > 0
  /\ StartsWith(0, CDATAOpen)
  /\ StartsWith(iterCursor - 3, CDATAClose)
  /\ iterOut = <<>>
  /\ StartsWith(iterCursor, CommentOpen)
  /\ cursor = Len(in) + 3
  /\ out = Span(iterCursor, Len(in)) \o MarkClose

(***************************************************************************)
(* C12: when the flag is false and the dispatch loop reaches an unescaped  *)
(* "$", the flag becomes true exactly when the "$" is preceded by a        *)
(* whitespace code point or is the first code point of the input, and is   *)
(* followed by a non-whitespace code point; otherwise it stays false.      *)
(***************************************************************************)
\* the inline-math detector has run in the current iteration and did not
\* claim the position
AfterInlineMath == pc \in {"handleLatex", "ConvertCopy", "Convert", "done"}

OpensMath(p) ==
  /\ p = 0 \/ IsSpace(at(p - 1))
  /\ p + 1 < Len(in)
  /\ ~IsSpace(at(p + 1))

C12_MathOpensWhenFlanked ==
  (InIteration /\ ~iterMath /\ at(iterCursor) = "$" /\ AfterInlineMath) =>
    (inInlineMath <=> OpensMath(iterCursor))

(***************************************************************************)
(* C13: when the flag is true and the dispatch loop reaches an unescaped   *)
(* "$" followed by a whitespace code point (space, tab or newline), the    *)
(* flag becomes false; a "$" followed by a non-whitespace code point       *)
(* leaves the flag true.                                                   *)
(***************************************************************************)
C13_MathClosesBeforeWhitespace ==
  ( /\ InIteration
    /\ iterMath
    /\ at(iterCursor) = "$"
    /\ iterCursor + 1 < Len(in)
    /\ AfterInlineMath )
  => (inInlineMath <=> ~IsSpace(at(iterCursor + 1)))

(***************************************************************************)
(* C14: when <!-- is claimed by the comment recognizer and no --> follows  *)
(* before end-of-input (also when the input ends in "-" or "--" or is just *)
(* <!--), the recognizer copies every remaining code point, appends -->,   *)
(* advances the cursor by 3, and Convert returns that output.              *)
(***************************************************************************)
AtUnterminatedComment ==
  /\ InIteration
  /\ StartsWith(iterCursor, CommentOpen)
  /\ ~Occurs(iterCursor, CommentClose)

C14_UnterminatedCommentClosed ==
  AtUnterminatedComment =>
    /\ pc # "panic"
    /\ Returned =>
         /\ cursor = Len(in) + 3
         /\ out = iterOut \o Span(iterCursor, Len(in)) \o MarkClose


(***************************************************************************)
(* C15: after the command name (up to the first "{", "[", whitespace or    *)
(* end-of-input) handleLatexCommand keeps a counter of the copied opening  *)
(* minus the copied closing brackets, whatever their kind; it stops at the *)
(* first position where the counter is 0 and the current code point is     *)
(* neither "{" nor "[", or at end-of-input; the counter is never negative. *)
(***************************************************************************)
\* opening minus closing brackets in the input from a up to, not
\* including, b
Depth(a, b) ==
  Cardinality({i \in a..(b - 1) : at(i) \in Opens})
    - Cardinality({i \in a..(b - 1) : at(i) \in {"}", "]"}})

\* where the bracket groups that start at position a stop
CommandStop(a) ==
  LET S == {p \in a..(Len(in) - 1) : Depth(a, p) = 0 /\ at(p) \notin Opens}
  IN  IF S = {} THEN Len(in)
      ELSE CHOOSE p \in S : \A q \in S : p <= q

\* the LaTeX recognizer claims the position of the current iteration for a
\* command
CommandClaimed ==
  /\ InIteration
  /\ ~iterMath
  /\ at(iterCursor) = BS
  /\ iterCursor + 1 < Len(in)
  /\ at(iterCursor + 1) \notin {BS, "$"}
  /\ ~BeginAt(iterCursor)

C15_BracketCounter ==
  /\ cmdNesting >= 0
  /\ (pc = "handleLatexCommandName" /\ emitCommentBlock) =>
       /\ cursor <= NameEnd(iterCursor)
       /\ out = iterOut \o MarkOpen \o Span(iterCursor, cursor)
  /\ (pc = "handleLatexCommandArgs" /\ emitCommentBlock) =>
       /\ cursor >= NameEnd(iterCursor)
       /\ cursor <= CommandStop(NameEnd(iterCursor))
       /\ cmdNesting = Depth(NameEnd(iterCursor), cursor)
       /\ out = iterOut \o MarkOpen \o Span(iterCursor, cursor)
  /\ (CommandClaimed /\ Returned) =>
       /\ cursor = CommandStop(NameEnd(iterCursor))
       /\ out = iterOut \o MarkOpen \o Span(iterCursor, cursor) \o MarkClose

\* a command whose group is opened by "{" and closed by "]" has been
\* wrapped as one command
C15_Witness ==
  /\ CommandClaimed
  /\ Returned
  /\ in = <<BS, "x", "{", "x", "x", "]">>
  /\ cursor = Len(in)
  /\ out = MarkOpen \o in \o MarkClose


(***************************************************************************)
(* C16: the inline-math flag is changed only by handleInlineMath at a "$"  *)
(* the dispatch loop has reached; handleComments, handleCDATA,             *)
(* handleLatexCommand, handleLatexBlock and the fallback copy leave it     *)
(* unchanged, so after an iteration that did not start at a "$" the flag   *)
(* is the one the iteration started with, whatever "$" the consumed span   *)
(* holds.                                                                  *)
(***************************************************************************)
FlagFramed ==
  (InIteration /\ Returned /\ at(iterCursor) # "$") =>
    inInlineMath = iterMath

C16_FlagOnlyByInlineMath ==
  [][ /\ inInlineMath' # inInlineMath =>
           (pc = "handleInlineMath" /\ cursor = iterCursor /\ at(cursor) = "$")
      /\ FlagFramed'
    ]_vars

\* a comment holding a "$" preceded by a space, which would open inline
\* math at the dispatch loop, has been copied and the flag is still clear
C16_Witness ==
  /\ pc = "Convert"
  /\ InIteration
  /\ ~iterMath
  /\ ~inInlineMath
  /\ StartsWith(iterCursor, CommentOpen)
  /\ cursor <= Len(in)
  /\ \E i \in iterCursor..(cursor - 2) : at(i) = " " /\ at(i + 1) = "$"


(***************************************************************************)
(* C17: for every finite input Convert eventually returns: the dispatch    *)
(* loop and every inner loop advance the cursor on each iteration and exit *)
(* at the latest at end-of-input.  The conversion is one sequential run    *)
(* that takes its next step whenever it has one, which is the weak         *)
(* fairness of Next.                                                       *)
(***************************************************************************)
FairSpec == Spec /\ WF_vars(Next)

C17_EventuallyReturns == <>(pc = "done")


(***************************************************************************)
(* C18: every <!-- that the LaTeX recognizer inserts (for a command or for *)
(* a block) is followed, before Convert returns, by exactly one inserted   *)
(* --> that closes it, also when the \end of a \begin never occurs or a    *)
(* bracket group is never closed: when the iteration of the recognizer is  *)
(* over, the output is what it was before, then <!--, the consumed span    *)
(* and -->.                                                                *)
(***************************************************************************)
\* the LaTeX recognizer claims the position of the current iteration
LatexClaimed ==
  /\ InIteration
  /\ ~iterMath
  /\ at(iterCursor) = BS
  /\ iterCursor + 1 < Len(in)
  /\ at(iterCursor + 1) \notin {BS, "$"}

C18_MarkersBalanced ==
  (LatexClaimed /\ Returned) =>
    out = iterOut \o MarkOpen \o Span(iterCursor, cursor) \o MarkClose

====
